---- MODULE Spec2Model ----
(***************************************************************************)
(* Fluke ScopeMeter protocol decoder (decoders/fluke_scopemeter/pd.py and  *)
(* lists.py) as a state machine.  One decode() call is one step.  Python   *)
(* strings are sequences of character codes, Python lists are sequences;   *)
(* Python indices are 0-based and are translated by At/Has/Slice below.    *)
(* None is the string "None".  An uncaught Python exception ends the       *)
(* session: it is recorded in err together with the fields as the          *)
(* interrupted call left them.  A method that is checked on its own is     *)
(* applied to arguments held in call and leaves its result in ret.         *)
(***************************************************************************)
EXTENDS Integers, Sequences, FiniteSets, TLC

VARIABLES xfer_length, buffer, cache, command_scope, progress,
          reset_required, state, err, out, last, call, ret

vars == <<xfer_length, buffer, cache, command_scope, progress,
          reset_required, state, err, out, last, call, ret>>

(***************************************************************************)
(* Module constants of pd.py                                               *)
(***************************************************************************)
RX == 0
TX == 1
CR == 13

State == [BUFFERING_TX |-> 0, BUFFERING_RX |-> 1, PROCESSING |-> 2]

Ann == [COMMAND |-> 0, PARAMETER |-> 1, PARAMETERS |-> 2, SEPARATOR |-> 3,
        TX_CR |-> 4, RX_CR |-> 5, ACK |-> 6, TX_ERROR |-> 7, RX_ERROR |-> 8,
        RX_SEPARATOR |-> 9, RX_DETAIL |-> 10, RESPONSE |-> 11,
        TX_SCOPE |-> 12, TX_METER |-> 13, RX_SCOPE |-> 14, RX_METER |-> 15,
        TX_CS |-> 16, RX_CS |-> 17, TX_CS_ERR |-> 18, RX_CS_ERR |-> 19,
        TX_LENGTH |-> 20, RX_LENGTH |-> 21]

None == "None"

(***************************************************************************)
(* Python sequence indexing                                                *)
(***************************************************************************)
Min(a, b) == IF a < b THEN a ELSE b
Max(a, b) == IF a > b THEN a ELSE b

\* s[i] is defined (no IndexError)
Has(s, i) == IF i >= 0 THEN i < Len(s) ELSE 0 - i <= Len(s)

\* s[i]
At(s, i) == IF i >= 0 THEN s[i + 1] ELSE s[Len(s) + i + 1]

\* s[lo:hi]
Slice(s, lo, hi) ==
    LET n == Len(s)
        norm(i) == IF i < 0 THEN Max(n + i, 0) ELSE Min(i, n)
        a == norm(lo)
        b == norm(hi)
    IN  IF a >= b THEN <<>> ELSE SubSeq(s, a + 1, b)

\* s[lo:]
SliceFrom(s, lo) == Slice(s, lo, Len(s))

\* chr() and ord() on 0..255: a character is its code point
chr(b) == b
ord(c) == c

\* str.upper() on one character of 0..255: the upper-case string
upper_char(c) ==
    IF c >= 97 /\ c <= 122 THEN <<c - 32>>
    ELSE IF c = 181 THEN <<924>>
    ELSE IF c = 223 THEN <<83, 83>>
    ELSE IF c >= 224 /\ c <= 254 /\ c # 247 THEN <<c - 32>>
    ELSE IF c = 255 THEN <<376>>
    ELSE <<c>>

\* str.upper()
RECURSIVE upper(_)
upper(s) == IF Len(s) = 0 THEN <<>> ELSE upper_char(s[1]) \o upper(Tail(s))

(***************************************************************************)
(* lists.py: the command table.  parameters keeps the 'name' of each       *)
(* declared parameter, the only field pd.py reads.  A missing              *)
(* 'response_callback' key is None.                                        *)
(***************************************************************************)
Cmd(name, parameters, flow, callback, response_callback) ==
    [name |-> name, parameters |-> parameters, flow |-> flow,
     callback |-> callback, response_callback |-> response_callback]

commands ==
    ("NONE_CR" :> Cmd("Command terminator", <<>>, "TA", "handle_none_cmd", None)) @@
    ("UNKNOWN" :> Cmd("Unknown command", <<>>, "TA", "handle_simple_cmd", None)) @@
    ("AS" :> Cmd("AUTO SETUP", <<>>, "TA", "handle_simple_cmd", None)) @@
    ("AT" :> Cmd("ARM TRIGGER", <<>>, "TA", "handle_simple_cmd", None)) @@
    ("CV" :> Cmd("CPL VERSION QUERY", <<>>, "TAR", "handle_simple_cmd", "ann_plain_text")) @@
    ("DS" :> Cmd("DEFAULT SETUP", <<>>, "TA", "handle_simple_cmd", None)) @@
    ("GL" :> Cmd("GO TO LOCAL", <<>>, "TA", "handle_simple_cmd", None)) @@
    ("GR" :> Cmd("GO TO REMOTE", <<>>, "TA", "handle_simple_cmd", None)) @@
    ("ID" :> Cmd("IDENTIFICATION", <<>>, "TAR", "handle_simple_cmd", "ann_plain_text")) @@
    ("IS" :> Cmd("INSTRUMENT STATUS", <<>>, "TAR", "handle_simple_cmd", "ann_register_responses")) @@
    ("LL" :> Cmd("LOCAL LOCKOUT", <<>>, "TA", "handle_simple_cmd", None)) @@
    ("PC" :> Cmd("PROGRAM COMMUNICATION",
                 <<"Baud rate", "Parity", "Data bits", "Stop bits", "Handshake">>,
                 "TA", "handle_simple_cmd", None)) @@
    ("PS" :> Cmd("PROGRAM SETUP", <<"1", "Setup">>, "TA", "handle_simple_cmd", None)) @@
    ("PW" :> Cmd("PROGRAM WAVEFORM", <<"Trace no", "Setup">>, "TATA",
                 "handle_program_waveform_cmd", None)) @@
    ("QG" :> Cmd("QG - UNDOCUMENTED", <<"UNDOCUMENTED">>, "TAR", "handle_simple_cmd", "ann_binary")) @@
    ("QM" :> Cmd("QUERY MEASUREMENT", <<"Field no", "Values only">>, "TAR",
                 "handle_simple_cmd", "handle_query_measurement_rx")) @@
    ("QP" :> Cmd("QUERY PRINT", <<>>, "TAR", "handle_simple_cmd", "ann_binary")) @@
    ("QS" :> Cmd("QUERY SETUP", <<>>, "TAR", "handle_simple_cmd", "handle_query_setup_rx")) @@
    ("QW" :> Cmd("QUERY WAVEFORM", <<"Trace no", "Format option">>, "TAR",
                 "handle_simple_cmd", "handle_query_waveform_rx")) @@
    ("RD" :> Cmd("READ DATE", <<>>, "TAR", "handle_simple_cmd", "ann_plain_text")) @@
    ("RI" :> Cmd("RESET INSTRUMENT", <<>>, "TA", "handle_simple_cmd", None)) @@
    ("RS" :> Cmd("RECALL SETUP", <<"Setup register">>, "TA", "handle_simple_cmd", None)) @@
    ("RT" :> Cmd("READ TIME", <<>>, "TAR", "handle_simple_cmd", "ann_plain_text")) @@
    ("SS" :> Cmd("SAVE SETUP", <<"Setup register">>, "TA", "handle_simple_cmd", None)) @@
    ("ST" :> Cmd("STATUS QUERY", <<>>, "TAR", "handle_simple_cmd", "ann_register_responses")) @@
    ("TA" :> Cmd("TRIGGER ACQUISITION", <<>>, "TA", "handle_simple_cmd", None)) @@
    ("VS" :> Cmd("VIEW SCREEN", <<"View screen">>, "TA", "handle_simple_cmd", None)) @@
    ("WD" :> Cmd("WRITE DATE", <<"Date">>, "TA", "handle_simple_cmd", None)) @@
    ("WT" :> Cmd("WRITE TIME", <<"Time">>, "TA", "handle_simple_cmd", None))

\* The characters of each key of the command table
key_chars ==
    ("NONE_CR" :> <<78, 79, 78, 69, 95, 67, 82>>) @@
    ("UNKNOWN" :> <<85, 78, 75, 78, 79, 87, 78>>) @@
    ("AS" :> <<65, 83>>) @@ ("AT" :> <<65, 84>>) @@ ("CV" :> <<67, 86>>) @@
    ("DS" :> <<68, 83>>) @@ ("GL" :> <<71, 76>>) @@ ("GR" :> <<71, 82>>) @@
    ("ID" :> <<73, 68>>) @@ ("IS" :> <<73, 83>>) @@ ("LL" :> <<76, 76>>) @@
    ("PC" :> <<80, 67>>) @@ ("PS" :> <<80, 83>>) @@ ("PW" :> <<80, 87>>) @@
    ("QG" :> <<81, 71>>) @@ ("QM" :> <<81, 77>>) @@ ("QP" :> <<81, 80>>) @@
    ("QS" :> <<81, 83>>) @@ ("QW" :> <<81, 87>>) @@ ("RD" :> <<82, 68>>) @@
    ("RI" :> <<82, 73>>) @@ ("RS" :> <<82, 83>>) @@ ("RT" :> <<82, 84>>) @@
    ("SS" :> <<83, 83>>) @@ ("ST" :> <<83, 84>>) @@ ("TA" :> <<84, 65>>) @@
    ("VS" :> <<86, 83>>) @@ ("WD" :> <<87, 68>>) @@ ("WT" :> <<87, 84>>)

\* RegBit tuples: bit position and description
RegBit(bit, dec, desc) == [bit |-> bit, dec |-> dec, desc |-> desc]

\* instrument_status_data with the bit positions counted from one
instrument_status_data_from_one ==
    << RegBit(1, 1, "Hardware settled"),
       RegBit(2, 2, "Acquisition armed"),
       RegBit(3, 4, "Acquisition triggered"),
       RegBit(4, 8, "Acquisition busy"),
       RegBit(5, 16, "WAVEFORM A memory filled"),
       RegBit(6, 32, "WAVEFORM B memory filled"),
       RegBit(7, 64, "WAVEFORM A+/-B memory filled"),
       RegBit(8, 128, "Math function ready"),
       RegBit(9, 256, "Numeric results available"),
       RegBit(10, 512, "Hold mode active") >>

instrument_status_data ==
    << RegBit(0, 1, "Hardware settled"),
       RegBit(1, 2, "Acquisition armed"),
       RegBit(2, 4, "Acquisition triggered"),
       RegBit(3, 8, "Acquisition busy"),
       RegBit(4, 16, "WAVEFORM A memory filled"),
       RegBit(5, 32, "WAVEFORM B memory filled"),
       RegBit(6, 64, "WAVEFORM A+/-B memory filled"),
       RegBit(7, 128, "Math function ready"),
       RegBit(8, 256, "Numeric results available"),
       RegBit(9, 512, "Hold mode active") >>

status_query_data ==
    << RegBit(0, 1, "Illegal command"),
       RegBit(1, 2, "Wrong parameter data format"),
       RegBit(2, 4, "Parameter out of range"),
       RegBit(3, 8, "Instruction not valid in present state"),
       RegBit(4, 16, "Called function not implemented"),
       RegBit(5, 32, "Invalid number of parameters"),
       RegBit(6, 64, "Wrong number of data bits"),
       RegBit(9, 512, "Conflicting instrument settings"),
       RegBit(14, 16384, "Checksum error") >>

\* Names that getattr(self, name) resolves on a Decoder instance
decoder_methods ==
    {"handle_simple_cmd", "handle_program_waveform_cmd", "ann_plain_text",
     "ann_register_responses", "ann_binary", "ann_query_measurement_rx",
     "ann_query_setup_rx", "ann_query_waveform_rx"}

(***************************************************************************)
(* Results of Python calls that can raise                                  *)
(***************************************************************************)
Ok(v) == [err |-> "none", val |-> v]
Raise(e) == [err |-> e, val |-> <<>>]

\* One annotation handed to put(): sample range, annotation class, and the
\* text as a fixed part (label) and the part copied from the data (arg)
Annot(start, end, ann, label, arg) ==
    [start |-> start, end |-> end, ann |-> ann, label |-> label, arg |-> arg]

(***************************************************************************)
(* int(str): surrounding whitespace, an optional sign, decimal digits with *)
(* single underscores between them; anything else raises ValueError        *)
(***************************************************************************)
py_space == {9, 10, 11, 12, 13, 28, 29, 30, 31, 32, 133, 160}

RECURSIVE lstrip(_)
lstrip(s) == IF Len(s) > 0 /\ s[1] \in py_space THEN lstrip(Tail(s)) ELSE s

RECURSIVE rstrip(_)
rstrip(s) ==
    IF Len(s) > 0 /\ s[Len(s)] \in py_space
    THEN rstrip(SubSeq(s, 1, Len(s) - 1)) ELSE s

is_digit(c) == c >= 48 /\ c <= 57

RECURSIVE digits_value(_, _)
digits_value(s, acc) ==
    IF Len(s) = 0 THEN acc
    ELSE IF s[1] = 95 THEN digits_value(Tail(s), acc)
    ELSE digits_value(Tail(s), 10 * acc + (s[1] - 48))

int(s) ==
    LET t == rstrip(lstrip(s))
        signed == Len(t) > 0 /\ t[1] \in {43, 45}
        body == IF signed THEN Tail(t) ELSE t
        n == Len(body)
        valid == /\ n > 0
                 /\ is_digit(body[1])
                 /\ is_digit(body[n])
                 /\ \A i \in 1..n : is_digit(body[i]) \/ body[i] = 95
                 /\ \A i \in 1..(n - 1) : ~(body[i] = 95 /\ body[i + 1] = 95)
        v == digits_value(body, 0)
    IN  IF ~valid THEN Raise("ValueError")
        ELSE Ok(IF signed /\ t[1] = 45 THEN 0 - v ELSE v)

(***************************************************************************)
(* Decoder helpers of pd.py                                                *)
(***************************************************************************)
\* Decoder.cmd_xfer_type
cmd_xfer_type(command) ==
    IF command \in {"QP", "QG"} THEN "BINARY" ELSE "ASCII"

\* Index of the first comma of string (1-based), 0 when there is none
first_comma(string) ==
    IF \E i \in 1..Len(string) : string[i] = 44
    THEN CHOOSE i \in 1..Len(string) :
            string[i] = 44 /\ \A j \in 1..(i - 1) : string[j] # 44
    ELSE 0

\* Decoder.transfer_length: <<length, number of length characters>>, or
\* None when string holds no comma
transfer_length(string) ==
    LET c == first_comma(string)
        items0 == SubSeq(string, 1, c - 1)
        n == int(items0)
    IN  IF c = 0 THEN Ok(None)
        ELSE IF n.err # "none" THEN Raise(n.err)
        ELSE Ok(<<n.val, Len(items0)>>)

\* calc_checksum that never masks the sum
RECURSIVE calc_checksum_unmasked(_)
calc_checksum_unmasked(string) ==
    IF Len(string) = 0 THEN 0
    ELSE calc_checksum_unmasked(SubSeq(string, 1, Len(string) - 1))
            + ord(string[Len(string)])

\* Decoder.calc_checksum
RECURSIVE calc_checksum(_)
calc_checksum(string) ==
    IF Len(string) = 0 THEN 0
    ELSE (calc_checksum(SubSeq(string, 1, Len(string) - 1))
            + ord(string[Len(string)])) % 256

\* Decoder.text_run
text_run(c) ==
    IF Has(c, 2) /\ Has(c, 0 - 2)
    THEN Ok(<<At(c, 2).start, At(c, 0 - 2).end>>)
    ELSE Raise("IndexError")

\* Decoder.binary_run
binary_run(c) ==
    IF Has(c, 2) /\ Has(c, 0 - 1)
    THEN Ok(<<At(c, 2).start, At(c, 0 - 1).end>>)
    ELSE Raise("IndexError")

\* Decoder.ann_cr
ann_cr(c, rxtx, index) ==
    IF Has(c[rxtx], index)
    THEN Ok(Annot(At(c[rxtx], index).start, At(c[rxtx], index).end,
                  IF rxtx = RX THEN Ann.RX_CR ELSE Ann.TX_CR, "<CR>", <<>>))
    ELSE Raise("IndexError")

\* Decoder.ann_cmd_details
ann_cmd_details(command) == [ann |-> Ann.COMMAND, label |-> commands[command].name]

\* Decoder.ann_cmd_params
ann_cmd_params(command) == [ann |-> Ann.PARAMETERS, label |-> commands[command].name]

\* Decoder.ann_cmd_param
ann_cmd_param(data) ==
    Annot(data.start, data.end, Ann.PARAMETER, data.param_name, data.string)

\* Decoder.ann_separator
ann_separator(rxtx, data) ==
    Annot(data.start, data.end,
          IF rxtx = TX THEN Ann.SEPARATOR ELSE Ann.RX_SEPARATOR,
          "", data.string)

\* status dictionary of Decoder.ann_response_code
ack_status(ack) ==
    CASE ack = 48 -> "Ok"
      [] ack = 49 -> "Syntax Error"
      [] ack = 50 -> "Execution Error"
      [] ack = 51 -> "Synchronization Error"
      [] ack = 52 -> "Communication Error"
      [] OTHER -> "Unknown Acknowledge"

\* Decoder.ann_response_code
ann_response_code(c) ==
    IF Has(c[RX], 0)
    THEN LET item == At(c[RX], 0)
             ack == chr(item.data[1])
         IN  Ok(Annot(item.start, item.end, Ann.ACK, ack_status(ack), <<ack>>))
    ELSE Raise("IndexError")

(***************************************************************************)
(* Host parameter tokenizer                                                *)
(***************************************************************************)
\* Decoder.trim_param_start: the for loop walks c by position while the
\* body deletes c[0]
RECURSIVE trim_loop(_, _)
trim_loop(c, idx) ==
    IF idx >= Len(c) THEN c
    ELSE IF At(c, idx).data[1] \in {9, 32} THEN trim_loop(Tail(c), idx + 1)
    ELSE c

\* trim_param_start that trims nothing
trim_param_start_kept(c) == c

trim_param_start(c) == trim_loop(c, 0)

\* One entry of the ann dictionary of command_param_organise
Token(item, type) ==
    [string |-> <<chr(item.data[1])>>, data |-> <<item.data>>, type |-> type,
     start |-> item.start, end |-> item.end, param_name |-> None]

\* First loop of Decoder.command_param_organise: ann[1..i] as a sequence
RECURSIVE organise_loop(_, _, _)
organise_loop(args, k, ann) ==
    IF k > Len(args) THEN ann
    ELSE LET item == args[k]
             i == Len(ann)
             separators == {9, 32, 44}
         IN  IF item.data[1] \in separators
                  /\ (Len(ann) = 0 \/ ann[i].type # "separator")
             THEN organise_loop(args, k + 1, Append(ann, Token(item, "separator")))
             ELSE IF Len(ann) = 0 \/ ann[i].type # "parameter"
             THEN organise_loop(args, k + 1, Append(ann, Token(item, "parameter")))
             ELSE organise_loop(args, k + 1,
                    [ann EXCEPT ![i].string = Append(@, chr(item.data[1])),
                                ![i].data = Append(@, item.data),
                                ![i].end = item.end])

\* Second loop of Decoder.command_param_organise
RECURSIVE name_loop(_, _, _, _)
name_loop(ann, k, j, cmd_params) ==
    IF k > Len(ann) THEN ann
    ELSE IF ann[k].type = "parameter"
         THEN IF j < Len(cmd_params)
              THEN name_loop([ann EXCEPT ![k].param_name = cmd_params[j + 1]],
                             k + 1, j + 1, cmd_params)
              ELSE name_loop([ann EXCEPT ![k].param_name = "Unknown parameter"],
                             k + 1, j, cmd_params)
         ELSE name_loop(ann, k + 1, j, cmd_params)

\* Decoder.command_param_organise
command_param_organise(self, command) ==
    LET c == Slice(self.cache[TX], 2, 0 - 1)
        cmd_params == commands[command].parameters
        args == trim_param_start(c)
    IN  name_loop(organise_loop(args, 1, <<>>), 1, 0, cmd_params)

\* Decoder.cmd_param_format
cmd_param_format(organised_params) ==
    [k \in 1..Len(organised_params) |->
        IF organised_params[k].type = "separator"
        THEN ann_separator(TX, organised_params[k])
        ELSE ann_cmd_param(organised_params[k])]

(***************************************************************************)
(* Device response tokenizer.  No method of the decoder calls it.          *)
(***************************************************************************)
\* Decoder.cmd_v_present
cmd_v_present(self) ==
    IF Has(self.cache[TX], 0 - 1)
    THEN Ok(upper(<<chr(At(self.cache[TX], 0 - 1).data[1])>>) = <<86>>)
    ELSE Raise("IndexError")

\* One entry of the ann dictionary of response_organise
RxToken(item, type) ==
    [string |-> <<chr(item.data[1])>>, data |-> <<item.data>>, type |-> type,
     start |-> item.start, end |-> item.end, name |-> None]

\* First loop of Decoder.response_organise: ann[1..i] as a sequence
RECURSIVE response_loop(_, _, _)
response_loop(args, k, ann) ==
    IF k > Len(args) THEN ann
    ELSE LET item == args[k]
             i == Len(ann)
             comma == 44
         IN  IF item.data[1] = comma
                  /\ (Len(ann) = 0 \/ ann[i].type # "separator")
             THEN response_loop(args, k + 1, Append(ann, RxToken(item, "separator")))
             ELSE IF Len(ann) = 0 \/ ann[i].type # "rx_data"
             THEN response_loop(args, k + 1, Append(ann, RxToken(item, "rx_data")))
             ELSE response_loop(args, k + 1,
                    [ann EXCEPT ![i].string = Append(@, chr(item.data[1])),
                                ![i].data = Append(@, item.data),
                                ![i].end = item.end])

\* Second loop of Decoder.response_organise
RECURSIVE response_name_loop(_, _, _, _)
response_name_loop(ann, k, j, rx_items) ==
    IF k > Len(ann) THEN ann
    ELSE IF ann[k].type = "rx_data"
         THEN IF j < Len(rx_items)
              THEN response_name_loop([ann EXCEPT ![k].name = rx_items[j + 1]],
                                      k + 1, j + 1, rx_items)
              ELSE response_name_loop([ann EXCEPT ![k].name = "Unknown response data"],
                                      k + 1, j, rx_items)
         ELSE response_name_loop(ann, k + 1, j, rx_items)

\* Decoder.response_organise after its call of cmd_v_present, whose result
\* is v
response_organise_items(self, v) ==
    IF v.err # "none" THEN Raise(v.err)
    ELSE Ok(response_name_loop(
                response_loop(Slice(self.cache[RX], 2, 0 - 1), 1, <<>>), 1, 0,
                IF v.val THEN <<"Measurement value">>
                ELSE <<"Measurement type", "Measurement value", "Unit suffix">>))

\* Decoder.response_organise
response_organise(self) == response_organise_items(self, cmd_v_present(self))

(***************************************************************************)
(* Response annotations.  self is the record of the decoder's fields.      *)
(***************************************************************************)
\* Decoder.ann_checksum
ann_checksum(c, string, rxtx) ==
    IF ~Has(c[rxtx], 0 - 1) THEN Raise("IndexError")
    ELSE LET item == At(c[rxtx], 0 - 1)
             ok == calc_checksum(string) = item.data[1]
         IN  Ok(Annot(item.start, item.end,
                      IF ok THEN (IF rxtx = RX THEN Ann.RX_CS ELSE Ann.TX_CS)
                            ELSE (IF rxtx = RX THEN Ann.RX_CS_ERR ELSE Ann.TX_CS_ERR),
                      IF ok THEN "Checksum OK" ELSE "Checksum Error", <<>>))

\* Decoder.ann_binary after its call of transfer_length, whose result is tl
ann_binary_unpack(self, tl) ==
    LET buf == self.buffer[RX]
        c == self.cache[RX]
        command == self.command_scope
    IN  IF tl.err # "none" THEN Raise(tl.err)
        ELSE IF tl.val = None THEN Raise("TypeError")
        ELSE LET bin_length == tl.val[1]
                 len_length == tl.val[2]
                 run == text_run(SliceFrom(c, len_length + 1))
                 cs == ann_checksum(self.cache, Slice(buf, len_length + 3, 0 - 1), RX)
             IN  IF run.err # "none" THEN Raise(run.err)
                 ELSE IF ~Has(c, len_length + 2) THEN Raise("IndexError")
                 ELSE IF cs.err # "none" THEN Raise(cs.err)
                 ELSE Ok(<< Annot(At(c, 2).start, At(c, len_length + 1).end,
                                  Ann.RX_LENGTH, "Length", <<bin_length>>),
                            Annot(At(c, len_length + 2).start, At(c, len_length + 2).end,
                                  Ann.RX_SEPARATOR, "Separator: ,", <<>>),
                            Annot(run.val[1], run.val[2], Ann.RX_DETAIL,
                                  commands[command].name, <<>>),
                            cs.val >>)

\* Decoder.ann_binary
ann_binary(self) ==
    ann_binary_unpack(self, transfer_length(SliceFrom(self.buffer[RX], 2)))

\* Decoder.ann_plain_text
ann_plain_text(self) ==
    LET run == text_run(self.cache[RX])
        rx_string == Slice(self.buffer[RX], 2, 0 - 1)
        cr == ann_cr(self.cache, RX, 0 - 1)
    IN  IF run.err # "none" THEN Raise(run.err)
        ELSE IF cr.err # "none" THEN Raise(cr.err)
        ELSE Ok(<< Annot(run.val[1], run.val[2], Ann.RX_DETAIL, "", rx_string),
                   cr.val >>)

\* Decoder.ann_query_measurement_rx
ann_query_measurement_rx(self) == ann_plain_text(self)

\* Decoder.ann_query_setup_rx
ann_query_setup_rx(self) ==
    LET run == text_run(self.cache[RX])
        rx_string == Slice(self.buffer[RX], 2, 0 - 1)
        cr == ann_cr(self.cache, RX, 0 - 1)
    IN  IF run.err # "none" THEN Raise(run.err)
        ELSE IF cr.err # "none" THEN Raise(cr.err)
        ELSE Ok(<< Annot(run.val[1], run.val[2], Ann.RX_DETAIL, "", rx_string),
                   cr.val >>)

\* Decoder.ann_query_waveform_rx
ann_query_waveform_rx(self) == ann_plain_text(self)

\* Decoder.ann_register_responses.  data is the list of bit entries of the
\* first register byte; a second register byte adds its whole bit list as
\* one more element, whose first item is a list and so never equals 1.  The
\* append also lengthens the cached bit list of the first byte, in a call
\* that ends with reset().
ann_register_responses(self) ==
    LET run == text_run(self.cache[RX])
        c == Slice(self.cache[RX], 2, 0 - 1)
        cr == ann_cr(self.cache, RX, 0 - 1)
    IN  IF run.err # "none" THEN Raise(run.err)
        ELSE IF ~Has(c, 0) THEN Raise("IndexError")
        ELSE LET bits == At(c, 0).data[2]
                 data_len == Len(bits) + (IF Len(c) > 1 THEN 1 ELSE 0)
                 reg_data == IF self.command_scope = "ST" THEN status_query_data
                             ELSE IF self.command_scope = "IS" THEN instrument_status_data
                             ELSE <<>>
                 is_set(bit) == /\ data_len > bit.bit
                                /\ bit.bit < Len(bits)
                                /\ bits[bit.bit + 1] = 1
                 hits == SelectSeq(reg_data, is_set)
                 message == [i \in 1..Len(hits) |-> hits[i].desc]
                 rx_string == IF Len(message) = 0 THEN <<"Register empty">>
                              ELSE message
             IN  IF cr.err # "none" THEN Raise(cr.err)
                 ELSE Ok(<< Annot(run.val[1], run.val[2], Ann.RX_DETAIL, "", rx_string),
                            cr.val >>)

\* fn = getattr(self, callback); fn() for a response callback
call_response(self, callback) ==
    CASE callback = "ann_plain_text" -> ann_plain_text(self)
      [] callback = "ann_register_responses" -> ann_register_responses(self)
      [] callback = "ann_binary" -> ann_binary(self)
      [] callback = "ann_query_measurement_rx" -> ann_query_measurement_rx(self)
      [] callback = "ann_query_setup_rx" -> ann_query_setup_rx(self)
      [] callback = "ann_query_waveform_rx" -> ann_query_waveform_rx(self)
      [] OTHER -> Raise("TypeError")

(***************************************************************************)
(* Command handlers.  A handler returns the decoder fields as it leaves    *)
(* them (self, with self.err set when it raised) and its annotation list.  *)
(***************************************************************************)
Fail(self, e) == [self |-> [self EXCEPT !.err = e], ann |-> <<>>]

\* Decoder.handle_response_code
handle_response_code(self) ==
    IF ~Has(self.cache[RX], 0) THEN [self |-> self, res |-> Raise("IndexError")]
    ELSE LET ack == chr(At(self.cache[RX], 0).data[1])
         IN  [self |-> IF ack # 48 THEN [self EXCEPT !.reset_required = TRUE]
                       ELSE self,
              res |-> ann_response_code(self.cache)]

\* Decoder.handle_simple_cmd, the block under
\* "if self.progress is None and rxtx is TX"
simple_cmd_tx(self, command) ==
    LET c == self.cache[TX]
        run == text_run(self.cache[TX])
        with_params == Len(self.buffer[TX]) > 3
        cr == ann_cr(self.cache, TX, 0 - 1)
    IN  IF ~(Has(c, 0) /\ Has(c, 1)) THEN Fail(self, "IndexError")
        ELSE IF with_params /\ run.err # "none" THEN Fail(self, run.err)
        ELSE IF cr.err # "none" THEN Fail(self, cr.err)
        ELSE [self |-> [self EXCEPT !.progress = "T",
                                    !.state = State.BUFFERING_RX],
              ann |-> <<Annot(At(c, 0).start, At(c, 1).end,
                              ann_cmd_details(command).ann,
                              ann_cmd_details(command).label, <<>>)>>
                      \o (IF with_params
                          THEN <<Annot(run.val[1], run.val[2],
                                       ann_cmd_params(command).ann,
                                       ann_cmd_params(command).label, <<>>)>>
                               \o cmd_param_format(command_param_organise(self, command))
                          ELSE <<>>)
                      \o <<cr.val>>]

\* flow_complete with the completion test written for queries only
flow_complete_query_only(self, cmd_flow) == self.progress = "TAR"

\* flow_complete with the completion test written "self.progress in cmd_flow"
flow_complete_contained(self, cmd_flow) == self.progress \in {"T", "TA", cmd_flow}

\* Decoder.handle_simple_cmd, "if self.progress == cmd_flow"
flow_complete(self, cmd_flow) == self.progress = cmd_flow

\* Decoder.handle_simple_cmd, the block under "if self.progress == 'T'";
\* h is what handle_response_code left
simple_cmd_ack(h, ann) ==
    LET cr == ann_cr(h.self.cache, RX, 1)
    IN  IF h.res.err # "none" THEN Fail(h.self, h.res.err)
        ELSE IF cr.err # "none" THEN Fail(h.self, cr.err)
        ELSE [self |-> [h.self EXCEPT !.progress = "TA",
                                      !.state = State.BUFFERING_RX],
              ann |-> ann \o <<h.res.val, cr.val>>]

\* Decoder.handle_simple_cmd, the block under
\* "elif self.progress == 'TA' and cmd_flow == 'TAR'"; annotations is what
\* the response callback returned
simple_cmd_response(self, ann, command, callback, annotations) ==
    LET run == IF cmd_xfer_type(command) = "ASCII"
               THEN text_run(self.cache[RX])
               ELSE binary_run(self.cache[RX])
    IN  IF run.err # "none" THEN Fail(self, run.err)
        ELSE IF callback = None THEN Fail(self, "KeyError")
        ELSE IF callback \notin decoder_methods THEN Fail(self, "AttributeError")
        ELSE IF annotations.err # "none" THEN Fail(self, annotations.err)
        ELSE [self |-> [self EXCEPT !.progress = "TAR"],
              ann |-> ann
                      \o <<Annot(run.val[1], run.val[2], Ann.RESPONSE,
                                 commands[command].name, <<>>)>>
                      \o annotations.val]

\* simple_cmd_done without "self.reset_required = True"
simple_cmd_done_unflagged(step, cmd_flow) ==
    IF step.self.err = "none" /\ flow_complete(step.self, cmd_flow)
    THEN [step EXCEPT !.self.state = State.BUFFERING_TX]
    ELSE step

\* Decoder.handle_simple_cmd, the block under "if self.progress == cmd_flow";
\* step is what the blocks before it left
simple_cmd_done(step, cmd_flow) ==
    IF step.self.err = "none" /\ flow_complete(step.self, cmd_flow)
    THEN [step EXCEPT !.self.state = State.BUFFERING_TX,
                      !.self.reset_required = TRUE]
    ELSE step

\* Decoder.handle_simple_cmd, the block under "if rxtx is RX"
simple_cmd_rx(self, ann, command, cmd_flow) ==
    simple_cmd_done(
        IF self.progress = "T"
        THEN simple_cmd_ack(handle_response_code(self), ann)
        ELSE IF self.progress = "TA" /\ cmd_flow = "TAR"
        THEN simple_cmd_response(
                 self, ann, command,
                 commands[self.command_scope].response_callback,
                 call_response(self, commands[self.command_scope].response_callback))
        ELSE [self |-> self, ann |-> ann],
        cmd_flow)

\* Decoder.handle_simple_cmd
handle_simple_cmd(self, rxtx) ==
    LET command == self.command_scope
        cmd_flow == commands[command].flow
        first == IF self.progress = None /\ rxtx = TX
                 THEN simple_cmd_tx(self, command)
                 ELSE [self |-> self, ann |-> <<>>]
    IN  IF first.self.err = "none" /\ rxtx = RX
        THEN simple_cmd_rx(first.self, first.ann, command, cmd_flow)
        ELSE first

\* Decoder.handle_program_waveform_cmd
handle_program_waveform_cmd(self, rxtx) == handle_simple_cmd(self, rxtx)

\* fn = getattr(self, callback); fn(rxtx) for a command callback
call_command(self, callback, rxtx) ==
    IF callback \notin decoder_methods THEN Fail(self, "AttributeError")
    ELSE IF callback = "handle_simple_cmd" THEN handle_simple_cmd(self, rxtx)
    ELSE IF callback = "handle_program_waveform_cmd"
         THEN handle_program_waveform_cmd(self, rxtx)
    ELSE Fail(self, "TypeError")

(***************************************************************************)
(* Decoder.reset, Decoder.update_buffer, Decoder.decode                    *)
(***************************************************************************)
\* reset that leaves the binary frame length behind
reset_keeps_length(self) ==
    [self EXCEPT !.buffer = [d \in {RX, TX} |-> <<>>],
                 !.cache = [d \in {RX, TX} |-> <<>>],
                 !.command_scope = None,
                 !.progress = None,
                 !.reset_required = FALSE,
                 !.state = State.BUFFERING_TX]

\* Decoder.reset
reset(self) ==
    [self EXCEPT !.xfer_length = 0,
                 !.buffer = [d \in {RX, TX} |-> <<>>],
                 !.cache = [d \in {RX, TX} |-> <<>>],
                 !.command_scope = None,
                 !.progress = None,
                 !.reset_required = FALSE,
                 !.state = State.BUFFERING_TX]

\* update_buffer with "self.buffer[rxtx] = text" for "+= text"
update_buffer_assigned(self, rxtx, startsample, endsample, data) ==
    [self EXCEPT !.cache[rxtx] = Append(@, [data |-> data, start |-> startsample,
                                            end |-> endsample]),
                 !.buffer[rxtx] = <<chr(data[1])>>]

\* Decoder.update_buffer
update_buffer(self, rxtx, startsample, endsample, data) ==
    [self EXCEPT !.cache[rxtx] = Append(@, [data |-> data, start |-> startsample,
                                            end |-> endsample]),
                 !.buffer[rxtx] = Append(@, chr(data[1]))]

\* "self.cache[TX][0]['data'] == CR": the cached data is the (value, bits)
\* pair of the event, which is never equal to an int
pair_equals_int(data, n) == FALSE

\* frame_complete with the terminator test of a text response written
\* "pdata == CR"
frame_complete_pair_test(self, rxtx, pdata) ==
    LET rest == SliceFrom(self.buffer[RX], 2)
        tl == transfer_length(rest)
        Processing == [self |-> [self EXCEPT !.state = State.PROCESSING],
                       return |-> FALSE]
        Return == [self |-> self, return |-> TRUE]
    IN  IF rxtx = TX
        THEN IF pdata[1] = CR THEN Processing ELSE Return
        ELSE IF cmd_xfer_type(self.command_scope) = "BINARY"
        THEN IF self.xfer_length = 0 /\ Len(rest) > 8
             THEN IF tl.err # "none"
                  THEN [self |-> [self EXCEPT !.err = tl.err], return |-> TRUE]
                  ELSE IF tl.val = None
                  THEN [self |-> [self EXCEPT !.err = "TypeError"], return |-> TRUE]
                  ELSE [self |-> [self EXCEPT !.xfer_length = tl.val[1] + tl.val[2] + 1],
                        return |-> FALSE]
             ELSE IF 0 < self.xfer_length /\ self.xfer_length <= Len(rest)
             THEN Processing
             ELSE Return
        ELSE IF pair_equals_int(pdata, CR) THEN Processing ELSE Return

\* Decoder.decode, the lines that decide whether the frame is complete
\* after update_buffer; return is TRUE where decode returns
frame_complete(self, rxtx, pdata) ==
    LET rest == SliceFrom(self.buffer[RX], 2)
        tl == transfer_length(rest)
        Processing == [self |-> [self EXCEPT !.state = State.PROCESSING],
                       return |-> FALSE]
        Return == [self |-> self, return |-> TRUE]
    IN  IF rxtx = TX
        THEN IF pdata[1] = CR THEN Processing ELSE Return
        ELSE IF cmd_xfer_type(self.command_scope) = "BINARY"
        THEN IF self.xfer_length = 0 /\ Len(rest) > 8
             THEN IF tl.err # "none"
                  THEN [self |-> [self EXCEPT !.err = tl.err], return |-> TRUE]
                  ELSE IF tl.val = None
                  THEN [self |-> [self EXCEPT !.err = "TypeError"], return |-> TRUE]
                  ELSE [self |-> [self EXCEPT !.xfer_length = tl.val[1] + tl.val[2] + 1],
                        return |-> FALSE]
             ELSE IF 0 < self.xfer_length /\ self.xfer_length <= Len(rest)
             THEN Processing
             ELSE Return
        ELSE IF pdata[1] = CR THEN Processing ELSE Return

\* The command key spelled by chars, UNKNOWN when the table has none
scope_of(chars) ==
    IF \E k \in DOMAIN commands : key_chars[k] = chars
    THEN CHOOSE k \in DOMAIN commands : key_chars[k] = chars
    ELSE "UNKNOWN"

\* classify that looks the first two characters up as they were sent
classify_as_sent(self, rxtx) ==
    IF rxtx # TX THEN self
    ELSE [self EXCEPT !.command_scope =
              IF self.command_scope = None THEN scope_of(Slice(self.buffer[TX], 0, 2))
              ELSE self.command_scope]

\* Decoder.decode, classification of the host frame
classify(self, rxtx) ==
    IF rxtx # TX THEN self
    ELSE LET none_cr == /\ Len(self.buffer[TX]) = 1
                        /\ pair_equals_int(At(self.cache[TX], 0).data, CR)
             scope == IF none_cr THEN "NONE_CR" ELSE self.command_scope
         IN  [self EXCEPT !.command_scope =
                  IF scope = None THEN scope_of(upper(Slice(self.buffer[TX], 0, 2)))
                  ELSE scope]

\* Decoder.decode, "self.aput(annotations)": the annotations r.ann of the
\* command callback are what the call hands to put()
aput(r, callback) == [self |-> r.self, put |-> r.ann, called |-> callback]

\* Decoder.decode, the block under "if self.state == State.PROCESSING"
dispatch(self, rxtx) ==
    LET c == classify(self, rxtx)
        callback == commands[c.command_scope].callback
    IN  aput(call_command(c, callback, rxtx), callback)

\* direction_error that also buffers the byte it reports
direction_error_buffers(self, startsample, endsample, rxtx) ==
    [self |-> update_buffer(self, rxtx, startsample, endsample, <<0, <<>>>>),
     put |-> <<Annot(startsample, endsample,
                     IF rxtx = RX THEN Ann.RX_ERROR ELSE Ann.TX_ERROR,
                     IF rxtx = RX THEN "Bad/Unknown RX" ELSE "Bad/Unknown TX",
                     <<>>)>>]

\* Decoder.decode, the two direction tests at its head: a byte of the
\* direction that is not being buffered is annotated and dropped
direction_error(self, startsample, endsample, rxtx) ==
    [self |-> self,
     put |-> <<Annot(startsample, endsample,
                     IF rxtx = RX THEN Ann.RX_ERROR ELSE Ann.TX_ERROR,
                     IF rxtx = RX THEN "Bad/Unknown RX" ELSE "Bad/Unknown TX",
                     <<>>)>>]

\* A return of decode before its PROCESSING block
Returns(s, put) ==
    [self |-> s, put |-> put, called |-> None, at_end |-> FALSE, before |-> s]

\* Decoder.decode, "if self.reset_required: self.reset()" at its end; d is
\* what the PROCESSING block left
decode_end(d) ==
    IF d.self.err # "none"
    THEN [self |-> d.self, put |-> <<>>, called |-> d.called,
          at_end |-> FALSE, before |-> d.self]
    ELSE [self |-> IF d.self.reset_required THEN reset(d.self) ELSE d.self,
          put |-> d.put, called |-> d.called,
          at_end |-> TRUE, before |-> d.self]

\* Decoder.decode from "if self.state == State.PROCESSING" on; f is what
\* the buffering block left
decode_processing(f, rxtx) ==
    IF f.return THEN Returns(f.self, <<>>)
    ELSE decode_end(IF f.self.state = State.PROCESSING
                    THEN dispatch(f.self, rxtx)
                    ELSE [self |-> f.self, put |-> <<>>, called |-> None])

\* decode with the packet type tested after the two direction tests
decode_type_late(self, startsample, endsample, data) ==
    LET ptype == data[1]
        rxtx == data[2]
        pdata == data[3]
        buffering == \/ (self.state = State.BUFFERING_TX /\ rxtx = TX)
                     \/ (self.state = State.BUFFERING_RX /\ rxtx = RX)
        bad == direction_error(self, startsample, endsample, rxtx)
    IN  IF self.state = State.BUFFERING_TX /\ rxtx = RX
        THEN Returns(bad.self, bad.put)
        ELSE IF self.state = State.BUFFERING_RX /\ rxtx = TX
        THEN Returns(bad.self, bad.put)
        ELSE IF ptype # "DATA" THEN Returns(self, <<>>)
        ELSE decode_processing(
                 IF buffering
                 THEN frame_complete(update_buffer(self, rxtx, startsample,
                                                   endsample, pdata),
                                     rxtx, pdata)
                 ELSE [self |-> self, return |-> FALSE],
                 rxtx)

\* Decoder.decode.  put is the sequence of annotations handed to aput,
\* called the command callback that was looked up, at_end whether the call
\* got to the reset_required test, before the fields at that test.
decode(self, startsample, endsample, data) ==
    LET ptype == data[1]
        rxtx == data[2]
        pdata == data[3]
        buffering == \/ (self.state = State.BUFFERING_TX /\ rxtx = TX)
                     \/ (self.state = State.BUFFERING_RX /\ rxtx = RX)
        bad == direction_error(self, startsample, endsample, rxtx)
    IN  IF ptype # "DATA" THEN Returns(self, <<>>)
        ELSE IF self.state = State.BUFFERING_TX /\ rxtx = RX
        THEN Returns(bad.self, bad.put)
        ELSE IF self.state = State.BUFFERING_RX /\ rxtx = TX
        THEN Returns(bad.self, bad.put)
        ELSE decode_processing(
                 IF buffering
                 THEN frame_complete(update_buffer(self, rxtx, startsample,
                                                   endsample, pdata),
                                     rxtx, pdata)
                 ELSE [self |-> self, return |-> FALSE],
                 rxtx)

(***************************************************************************)
(* The byte source: what the UART decoder below hands to decode()          *)
(***************************************************************************)
\* Host parameter bytes offered after the two command characters
MaxParams == 1
\* Payload bytes offered in an ASCII response before its terminator
MaxResp == 3
\* Largest declared payload length of the binary responses offered
MaxBinLen == 11

\* pdata of a DATA event: the byte value and its data bits, LSB first
\* (each bit entry is kept as its bit value)
pdata_of(b) == <<b, [i \in 1..8 |-> (b \div (2 ^ (i - 1))) % 2]>>

\* Sample numbers of the event that follows k buffered bytes, counted from
\* the start of the exchange
start_of(k) == 2 * k
end_of(k) == 2 * k + 1

\* Two-character codes the host sends: every key of the table, a lower-case
\* and a mixed-case spelling, and codes the table does not hold
host_codes ==
    {key_chars[k] : k \in DOMAIN commands \ {"NONE_CR", "UNKNOWN"}}
        \cup {<<113, 112>>, <<97, 83>>, <<113, 109>>, <<90, 90>>}

param_bytes == {32, 53}
ack_bytes == {48, 49, CR}
resp_bytes == {0, 8, 44, 65}
stray_bytes == {CR, 65}
non_data_types == {"STARTBIT", "PARITY ERROR"}

\* Bytes the host may send next while its frame tx is being buffered
host_offer(tx) ==
    IF Len(tx) = 0 THEN {c[1] : c \in host_codes} \cup {CR}
    ELSE IF Len(tx) = 1 THEN {c[2] : c \in {h \in host_codes : h[1] = tx[1]}} \cup {CR}
    ELSE IF Len(tx) - 2 < MaxParams THEN param_bytes \cup {CR}
    ELSE {CR}

\* Decimal digits of n
RECURSIVE decimal(_)
decimal(n) == IF n < 10 THEN <<48 + n>> ELSE decimal(n \div 10) \o <<48 + (n % 10)>>

\* Payload of n bytes: A, B, C, ...
payload(n) == [i \in 1..n |-> 64 + i]

\* Device bytes that follow a response on the wire
tail == <<48, 13, 48, 13, 48, 13, 48, 13, 48, 13>>

\* Device byte streams offered to a BINARY command: ack, length field,
\* comma, payload, a trailer that is the checksum of the payload or is off
\* by one, then the bytes that follow; an error ack; a response without
\* a comma
device_bin_streams ==
    {<<48, CR>> \o field \o <<44>> \o payload(n) \o <<(calc_checksum(payload(n)) + off) % 256>> \o tail :
        <<n, field, off>> \in
            {<<n, field, off>> \in (0..MaxBinLen) \X {decimal(m) : m \in 0..MaxBinLen}
                                    \X {0, 1} : field = decimal(n)}}
    \cup {<<48, CR, 48>> \o decimal(n) \o <<44>> \o payload(n) \o <<calc_checksum(payload(n))>> \o tail :
            n \in {0, 5}}
    \cup {<<49, CR>> \o tail}
    \cup {<<48, CR>> \o [i \in 1..12 |-> 65]}
    \cup {<<48, CR, 65, 44>> \o tail}

\* Bytes the device may send next while its frames rx are being buffered
device_offer(command, rx) ==
    IF cmd_xfer_type(command) = "BINARY"
    THEN {g[Len(rx) + 1] : g \in {h \in device_bin_streams :
                                    Len(h) > Len(rx) /\ SubSeq(h, 1, Len(rx)) = rx}}
    ELSE IF Len(rx) = 0 THEN ack_bytes
    ELSE IF Len(rx) = 1 THEN {CR}
    ELSE IF Len(rx) - 2 < MaxResp THEN resp_bytes \cup {CR}
    ELSE {CR}

(***************************************************************************)
(* The state machine                                                       *)
(***************************************************************************)
Self == [xfer_length |-> xfer_length, buffer |-> buffer, cache |-> cache,
         command_scope |-> command_scope, progress |-> progress,
         reset_required |-> reset_required, state |-> state, err |-> err]

\* Decoder.__init__
Fresh == reset([xfer_length |-> 0, buffer |-> None, cache |-> None,
                command_scope |-> None, progress |-> None,
                reset_required |-> None, state |-> None, err |-> "none"])

Init ==
    /\ xfer_length = Fresh.xfer_length
    /\ buffer = Fresh.buffer
    /\ cache = Fresh.cache
    /\ command_scope = Fresh.command_scope
    /\ progress = Fresh.progress
    /\ reset_required = Fresh.reset_required
    /\ state = Fresh.state
    /\ err = "none"
    /\ out = <<>>
    /\ last = [ptype |-> None, rxtx |-> TX, value |-> 0, start |-> 0, end |-> 0,
               called |-> None, at_end |-> FALSE, before |-> Fresh]
    /\ call = None
    /\ ret = <<>>

\* One call decode(startsample, endsample, [ptype, rxtx, pdata]).  out is
\* what the call handed to put(); last is the event, the command callback
\* the call looked up, whether it got to the reset_required test at its
\* end, and the decoder fields at that test (before a reset).
Called(ptype, rxtx, value, startsample, endsample, r) ==
    /\ err = "none"
    /\ xfer_length' = r.self.xfer_length
    /\ buffer' = r.self.buffer
    /\ cache' = r.self.cache
    /\ command_scope' = r.self.command_scope
    /\ progress' = r.self.progress
    /\ reset_required' = r.self.reset_required
    /\ state' = r.self.state
    /\ err' = r.self.err
    /\ out' = r.put
    /\ last' = [ptype |-> ptype, rxtx |-> rxtx, value |-> value,
                start |-> startsample, end |-> endsample,
                called |-> r.called, at_end |-> r.at_end,
                before |-> r.before]
    /\ UNCHANGED <<call, ret>>

\* The call for the event that follows the bytes buffered so far
Step(ptype, rxtx, value) ==
    LET k == Len(cache[TX]) + Len(cache[RX])
    IN  Called(ptype, rxtx, value, start_of(k), end_of(k),
               decode(Self, start_of(k), end_of(k),
                      <<ptype, rxtx,
                        IF ptype = "DATA" THEN pdata_of(value) ELSE value>>))

\* The UART decoder reports a byte on the host line
HostByte ==
    \E b \in (IF state = State.BUFFERING_TX THEN host_offer(buffer[TX])
              ELSE stray_bytes) :
        Step("DATA", TX, b)

\* The UART decoder reports a byte on the device line
DeviceByte ==
    \E b \in (IF state = State.BUFFERING_RX
              THEN device_offer(command_scope, buffer[RX])
              ELSE stray_bytes) :
        Step("DATA", RX, b)

\* The UART decoder reports something that is not a data byte
NonData ==
    \E ptype \in non_data_types, rxtx \in {RX, TX} :
        Step(ptype, rxtx, 0)

Next == HostByte \/ DeviceByte \/ NonData

Spec == Init /\ [][Next]_vars

TypeOK ==
    /\ state \in {State.BUFFERING_TX, State.BUFFERING_RX, State.PROCESSING}
    /\ command_scope \in DOMAIN commands \cup {None}
    /\ progress \in {None, "T", "TA", "TAR"}
    /\ reset_required \in BOOLEAN
    /\ xfer_length \in Int
    /\ Len(buffer[TX]) = Len(cache[TX])
    /\ Len(buffer[RX]) = Len(cache[RX])

(***************************************************************************)
(* Host frames with longer parameter fields.  The host sends one of a few  *)
(* commands followed by up to MaxParamBytes parameter bytes; the device    *)
(* acknowledges with '0' CR.                                               *)
(***************************************************************************)
MaxParamBytes == 4

\* RS (one declared parameter), PS (two), ID (none)
param_codes == {<<82, 83>>, <<80, 83>>, <<73, 68>>}

\* Tab, space, comma and the digit 5
token_bytes == {9, 32, 44, 53}

\* Bytes the host may send next while its frame tx is being buffered
param_offer(tx) ==
    IF Len(tx) = 0 THEN {c[1] : c \in param_codes}
    ELSE IF Len(tx) = 1 THEN {c[2] : c \in {h \in param_codes : h[1] = tx[1]}}
    ELSE IF Len(tx) - 2 < MaxParamBytes THEN token_bytes \cup {CR}
    ELSE {CR}

\* The UART decoder reports a byte of the host frame
ParamHostByte ==
    /\ state = State.BUFFERING_TX
    /\ \E b \in param_offer(buffer[TX]) : Step("DATA", TX, b)

\* The UART decoder reports a byte of the acknowledge frame
ParamDeviceByte ==
    /\ state = State.BUFFERING_RX
    /\ Len(buffer[RX]) < 2
    /\ \E b \in (IF Len(buffer[RX]) = 0 THEN {48} ELSE {CR}) : Step("DATA", RX, b)

ParamNext == ParamHostByte \/ ParamDeviceByte

ParamSpec == Init /\ [][ParamNext]_vars

(***************************************************************************)
(* Methods applied on their own: call holds the method and its arguments,  *)
(* ret the value it returned, once it has.                                 *)
(***************************************************************************)
\* Longest string handed to calc_checksum
MaxString == 3
\* Longest device response handed to response_organise
MaxFields == 4

checksum_bytes == {0, 1, 127, 128, 255}
field_bytes == {44, 65}

\* The sequences over S of length at most n
Strings(S, n) == UNION {[1..k -> S] : k \in 0..n}

\* QUERY MEASUREMENT requests: no parameter, a field number, and a field
\* number followed by the values-only flag in either case
measurement_requests ==
    {<<81, 77>> \o p \o <<CR>> :
        p \in {<<>>, <<49>>, <<49, 44, 86>>, <<49, 44, 118>>}}

\* Device frames: the ack '0' CR and a terminated response
measurement_responses ==
    {<<48, CR>> \o body \o <<CR>> : body \in Strings(field_bytes, MaxFields)}

\* self after update_buffer has taken the bytes of string in direction rxtx
RECURSIVE buffered(_, _, _)
buffered(self, rxtx, string) ==
    IF string = <<>> THEN self
    ELSE LET k == Len(self.cache[TX]) + Len(self.cache[RX])
         IN  buffered(update_buffer(self, rxtx, start_of(k), end_of(k),
                                    pdata_of(string[1])),
                      rxtx, Tail(string))

\* The decoder fields when the response callback of QUERY MEASUREMENT is
\* looked up: both frames buffered, the ack handled
awaiting_response(tx, rx) ==
    [buffered(buffered(Fresh, TX, tx), RX, rx)
        EXCEPT !.command_scope = "QM", !.progress = "TA",
               !.state = State.PROCESSING]

fn_calls ==
    {[fn |-> "calc_checksum", string |-> s] :
        s \in Strings(checksum_bytes, MaxString)}
    \cup {[fn |-> "response_organise", self |-> awaiting_response(tx, rx)] :
            tx \in measurement_requests, rx \in measurement_responses}

FnInit ==
    /\ xfer_length = Fresh.xfer_length
    /\ buffer = Fresh.buffer
    /\ cache = Fresh.cache
    /\ command_scope = Fresh.command_scope
    /\ progress = Fresh.progress
    /\ reset_required = Fresh.reset_required
    /\ state = Fresh.state
    /\ err = "none"
    /\ out = <<>>
    /\ last = [ptype |-> None, rxtx |-> TX, value |-> 0, start |-> 0, end |-> 0,
               called |-> None, at_end |-> FALSE, before |-> Fresh]
    /\ call \in fn_calls
    /\ ret = <<>>

\* self.calc_checksum(string)
CalcChecksum ==
    /\ call.fn = "calc_checksum"
    /\ ret = <<>>
    /\ ret' = <<calc_checksum(call.string)>>
    /\ UNCHANGED <<xfer_length, buffer, cache, command_scope, progress,
                   reset_required, state, err, out, last, call>>

\* self.response_organise()
ResponseOrganise ==
    /\ call.fn = "response_organise"
    /\ ret = <<>>
    /\ ret' = <<response_organise(call.self)>>
    /\ UNCHANGED <<xfer_length, buffer, cache, command_scope, progress,
                   reset_required, state, err, out, last, call>>

FnNext == CalcChecksum \/ ResponseOrganise

FnSpec == FnInit /\ [][FnNext]_vars

(***************************************************************************)
(* Properties                                                              *)
(***************************************************************************)
program_vars == <<xfer_length, buffer, cache, command_scope, progress,
                  reset_required, state>>

fresh_vars == <<Fresh.xfer_length, Fresh.buffer, Fresh.cache, Fresh.command_scope,
                Fresh.progress, Fresh.reset_required, Fresh.state>>

\* The step is decode() of a DATA byte b in direction rxtx
DataStep(rxtx, b) ==
    last'.ptype = "DATA" /\ last'.rxtx = rxtx /\ last'.value = b

HasAnn(anns, a) == \E i \in 1..Len(anns) : anns[i].ann = a

IsPrefix(s, t) == Len(s) <= Len(t) /\ SubSeq(t, 1, Len(s)) = s

\* C1: for every command whose flow is TA (UNKNOWN included), the
\* terminator of the ack frame '0' CR takes progress to "TA", sets
\* reset_required and the call ends with every field as after __init__;
\* the host byte that follows is buffered and not reported as Bad TX.
C1_TAFlowCompletes ==
    [][ /\ ( ( /\ state = State.BUFFERING_RX
               /\ progress = "T"
               /\ commands[command_scope].flow = "TA"
               /\ buffer[RX] = <<48>>
               /\ DataStep(RX, CR) )
             => ( /\ err' = "none"
                  /\ last'.at_end
                  /\ last'.before.progress = "TA"
                  /\ last'.before.reset_required
                  /\ program_vars' = fresh_vars ) )
        /\ ( ( /\ last.at_end
               /\ last.before.reset_required
               /\ last.before.progress = "TA"
               /\ commands[last.before.command_scope].flow = "TA"
               /\ \E b \in 0..255 : DataStep(TX, b) )
             => ( /\ ~HasAnn(out', Ann.TX_ERROR)
                  /\ buffer'[TX] = <<chr(last'.value)>>
                  /\ Len(cache'[TX]) = 1 ) )
      ]_vars

\* C1 witness: an unrecognized code has just been acknowledged with '0' CR
\* and the decoder is reset
C1_Witness ==
    /\ last.before.command_scope = "UNKNOWN"
    /\ last.before.progress = "TA"
    /\ last.before.buffer[RX] = <<48, CR>>
    /\ last.at_end
    /\ program_vars = fresh_vars
    /\ HasAnn(out, Ann.ACK)

\* C2: for every command whose flow is TAR, BINARY ones included, the
\* terminator of an ack frame whose code is not '0' gets the ack annotated,
\* no response annotation, and the decoder reset in that same call.
C2_ErrorAckResets ==
    [][ ( /\ state = State.BUFFERING_RX
          /\ progress = "T"
          /\ commands[command_scope].flow = "TAR"
          /\ Len(buffer[RX]) = 1
          /\ buffer[RX][1] \notin {48, CR}
          /\ DataStep(RX, CR) )
        => ( /\ err' = "none"
             /\ HasAnn(out', Ann.ACK)
             /\ ~HasAnn(out', Ann.RESPONSE)
             /\ ~HasAnn(out', Ann.RX_DETAIL)
             /\ program_vars' = fresh_vars )
      ]_vars

\* C3: for every ASCII command whose flow is TAR, the terminator of a
\* non-empty response after the ack '0' CR dispatches the response
\* handler, takes progress from "TA" to "TAR", emits the response
\* annotation and resets the decoder.
C3_AsciiResponseCompletes ==
    [][ ( /\ state = State.BUFFERING_RX
          /\ progress = "TA"
          /\ commands[command_scope].flow = "TAR"
          /\ cmd_xfer_type(command_scope) = "ASCII"
          /\ Len(buffer[RX]) > 2
          /\ SubSeq(buffer[RX], 1, 2) = <<48, CR>>
          /\ DataStep(RX, CR) )
        => ( /\ err' = "none"
             /\ last'.before.progress = "TAR"
             /\ HasAnn(out', Ann.RESPONSE)
             /\ program_vars' = fresh_vars )
      ]_vars

\* The device stream '0' CR '5' ',' 'A' 'B' 'C' 'D' 'E' and its checksum
binary_example == <<48, CR, 53, 44, 65, 66, 67, 68, 69, 79>>

\* C4: while a BINARY command receives the stream binary_example, the
\* frame is handed to the command callback on the byte that makes the RX
\* count 10 and on no earlier byte.
C4_BinaryExampleCompleteAtTen ==
    [][ ( /\ state = State.BUFFERING_RX
          /\ cmd_xfer_type(command_scope) = "BINARY"
          /\ \E b \in 0..255 :
                DataStep(RX, b) /\ IsPrefix(Append(buffer[RX], b), binary_example) )
        => ( (last'.called # None) <=> (Len(buffer[RX]) + 1 = 10) )
      ]_vars

\* C5: a DATA byte of the direction that is not being buffered yields
\* exactly one error annotation (RX_ERROR in BUFFERING_TX, TX_ERROR in
\* BUFFERING_RX) over that byte's samples and changes no decoder field.
C5_DirectionGating ==
    [][ /\ ( ( state = State.BUFFERING_TX /\ \E b \in 0..255 : DataStep(RX, b) )
             => ( /\ Len(out') = 1
                  /\ out'[1].ann = Ann.RX_ERROR
                  /\ out'[1].start = last'.start
                  /\ out'[1].end = last'.end
                  /\ err' = "none"
                  /\ UNCHANGED program_vars ) )
        /\ ( ( state = State.BUFFERING_RX /\ \E b \in 0..255 : DataStep(TX, b) )
             => ( /\ Len(out') = 1
                  /\ out'[1].ann = Ann.TX_ERROR
                  /\ out'[1].start = last'.start
                  /\ out'[1].end = last'.end
                  /\ err' = "none"
                  /\ UNCHANGED program_vars ) )
      ]_vars

\* C5 witness: a device byte was rejected in the middle of a host frame
C5_Witness ==
    /\ state = State.BUFFERING_TX
    /\ Len(buffer[TX]) = 2
    /\ last.ptype = "DATA"
    /\ last.rxtx = RX
    /\ Len(out) = 1
    /\ out[1].ann = Ann.RX_ERROR

\* C6: no decode call raises, and every call leaves one of the three
\* states.
C6_NoFailure ==
    /\ err = "none"
    /\ state \in {State.BUFFERING_TX, State.BUFFERING_RX, State.PROCESSING}

\* C7: once PROGRAM WAVEFORM has been sent and acknowledged with '0' CR,
\* the bytes of the second host frame are buffered, not reported as Bad
\* TX, and the decoder does not come to rest in PROCESSING.
C7_SecondHostFrameAccepted ==
    [][ /\ ( ( /\ command_scope = "PW"
               /\ progress = "TA"
               /\ buffer[RX] = <<48, CR>>
               /\ \E b \in 0..255 : DataStep(TX, b) )
             => ( /\ ~HasAnn(out', Ann.TX_ERROR)
                  /\ Len(buffer'[TX]) = Len(buffer[TX]) + 1 ) )
        /\ ( (command_scope = "PW" /\ err' = "none") => state' # State.PROCESSING )
      ]_vars

\* C8: a host frame that is the terminator alone is classified NONE_CR,
\* its handler emits the host terminator annotation and the decoder waits
\* for device bytes.
C8_EmptyCommandIsNone ==
    [][ ( /\ state = State.BUFFERING_TX
          /\ buffer[TX] = <<>>
          /\ DataStep(TX, CR) )
        => ( /\ err' = "none"
             /\ last'.before.command_scope = "NONE_CR"
             /\ HasAnn(out', Ann.TX_CR)
             /\ state' = State.BUFFERING_RX )
      ]_vars

\* C9: for a BINARY command, a device byte that leaves 9 or more bytes
\* past the 2-byte prefix with no comma among them is only buffered: no
\* failure, still BUFFERING_RX, length still unparsed.
C9_NoCommaWaits ==
    [][ ( /\ state = State.BUFFERING_RX
          /\ cmd_xfer_type(command_scope) = "BINARY"
          /\ Len(buffer[RX]) >= 10
          /\ \A i \in 3..Len(buffer[RX]) : buffer[RX][i] # 44
          /\ \E b \in 0..255 \ {44} : DataStep(RX, b) )
        => ( /\ err' = "none"
             /\ state' = State.BUFFERING_RX
             /\ xfer_length' = 0
             /\ buffer'[RX] = Append(buffer[RX], chr(last'.value)) )
      ]_vars

\* C10: a call that gets to the reset_required test with the flag set ends
\* with every field as after __init__; the flag is never left set by a call
\* that returns; and a step that shortens a buffer or a cache, or unsets
\* the command, the progress or the frame length, is such a call.
C10_ResetCompleteness ==
    [][ /\ ( (last'.at_end /\ last'.before.reset_required)
             => program_vars' = fresh_vars )
        /\ ( err' = "none" => reset_required' = FALSE )
        /\ ( ( \/ \E d \in {RX, TX} : Len(buffer'[d]) < Len(buffer[d])
               \/ \E d \in {RX, TX} : Len(cache'[d]) < Len(cache[d])
               \/ (command_scope # None /\ command_scope' = None)
               \/ (progress # None /\ progress' = None)
               \/ (xfer_length # 0 /\ xfer_length' = 0) )
             => (last'.at_end /\ last'.before.reset_required) )
      ]_vars

\* C10 witness: a binary response has just completed with a parsed frame
\* length and the decoder is reset
C10_Witness ==
    /\ last.at_end
    /\ last.before.reset_required
    /\ last.before.xfer_length > 0
    /\ last.before.progress = "TAR"
    /\ program_vars = fresh_vars

\* Separator bytes of the host side: tab, space, comma
host_separators == {9, 32, 44}

\* The separator and parameter annotations among anns, in their order
token_anns(anns) ==
    SelectSeq(anns, LAMBDA a : a.ann \in {Ann.SEPARATOR, Ann.PARAMETER})

\* The parameter annotations among anns, in their order
parameter_anns(anns) == SelectSeq(anns, LAMBDA a : a.ann = Ann.PARAMETER)

\* The bytes of a token list, in order
RECURSIVE Flatten(_)
Flatten(toks) == IF toks = <<>> THEN <<>> ELSE toks[1].arg \o Flatten(Tail(toks))

IsSuffix(s, t) == Len(s) <= Len(t) /\ SubSeq(t, Len(t) - Len(s) + 1, Len(t)) = s

\* s without its leading spaces and tabs
RECURSIVE strip_leading(_)
strip_leading(s) ==
    IF s # <<>> /\ s[1] \in {9, 32} THEN strip_leading(Tail(s)) ELSE s

\* The maximal runs of non-separator bytes of s, after the run being read
RECURSIVE data_runs(_, _)
data_runs(s, run) ==
    IF s = <<>> THEN (IF run = <<>> THEN <<>> ELSE <<run>>)
    ELSE IF s[1] \in host_separators
    THEN (IF run = <<>> THEN <<>> ELSE <<run>>) \o data_runs(Tail(s), <<>>)
    ELSE data_runs(Tail(s), Append(run, s[1]))

\* The step is decode() of the terminator of a host frame that holds a
\* command code; host_params are the bytes between the code and it
HostFrameStep ==
    state = State.BUFFERING_TX /\ Len(buffer[TX]) >= 2 /\ DataStep(TX, CR)

host_params == SubSeq(buffer[TX], 3, Len(buffer[TX]))

\* C11: the tokens of a host frame partition its parameter bytes (after
\* the trimmed start) in order; a separator token holds separator bytes
\* only, a data token holds no separator byte, and no two neighbouring
\* tokens are of the same kind.
C11_SeparatorCoalescing ==
    [][ HostFrameStep
        => LET toks == token_anns(out')
           IN  /\ err' = "none"
               /\ IsSuffix(Flatten(toks), host_params)
               /\ \A i \in 1..Len(toks) :
                     \A j \in 1..Len(toks[i].arg) :
                        (toks[i].ann = Ann.SEPARATOR)
                            <=> (toks[i].arg[j] \in host_separators)
               /\ \A i \in 1..(Len(toks) - 1) : toks[i].ann # toks[i + 1].ann
      ]_vars

\* The host frame 'R' 'S' ' ' '5' before its terminator
rs_example == <<82, 83, 32, 53>>

\* C12 as stated: the frame rs_example CR yields exactly one separator
\* token, the space, followed by exactly one data token "5" labelled
\* "Setup register".
C12_ExampleTokens ==
    [][ (state = State.BUFFERING_TX /\ buffer[TX] = rs_example /\ DataStep(TX, CR))
        => LET toks == token_anns(out')
           IN  /\ Len(toks) = 2
               /\ toks[1].ann = Ann.SEPARATOR
               /\ toks[1].arg = <<32>>
               /\ toks[2].ann = Ann.PARAMETER
               /\ toks[2].arg = <<53>>
               /\ toks[2].label = "Setup register"
      ]_vars

\* C12: the frame rs_example CR yields no separator token, the space
\* being trimmed as leading whitespace, and exactly one data token "5"
\* labelled "Setup register" over the samples of that byte.
C12_ExampleTokensTrimmed ==
    [][ (state = State.BUFFERING_TX /\ buffer[TX] = rs_example /\ DataStep(TX, CR))
        => LET toks == token_anns(out')
           IN  /\ err' = "none"
               /\ Len(toks) = 1
               /\ toks[1].ann = Ann.PARAMETER
               /\ toks[1].arg = <<53>>
               /\ toks[1].label = "Setup register"
               /\ toks[1].start = start_of(3)
               /\ toks[1].end = end_of(3)
      ]_vars

\* C12 witness: the frame rs_example CR has just been decoded as RECALL
\* SETUP and a parameter "5" was annotated
C12_Witness ==
    /\ last.before.buffer[TX] = rs_example \o <<CR>>
    /\ last.before.command_scope = "RS"
    /\ last.rxtx = TX
    /\ last.value = CR
    /\ \E i \in 1..Len(out) : out[i].ann = Ann.PARAMETER /\ out[i].arg = <<53>>

\* C13: whatever the number of spaces and tabs the parameter bytes begin
\* with, the tokens hold exactly the bytes that follow them, so the first
\* token does not begin with a space or a tab.
C13_LeadingWhitespaceTrimmed ==
    [][ HostFrameStep
        => LET toks == token_anns(out')
           IN  /\ err' = "none"
               /\ Flatten(toks) = strip_leading(host_params)
               /\ (toks # <<>> => toks[1].arg[1] \notin {9, 32})
      ]_vars

\* C14: the parameter annotations of a host frame are its maximal runs of
\* non-separator bytes, none dropped; the Nth carries the name of the Nth
\* declared parameter of the command, or "Unknown parameter" past the
\* declared count.
C14_PositionalNaming ==
    [][ HostFrameStep
        => LET pars == parameter_anns(out')
               runs == data_runs(host_params, <<>>)
               names == commands[last'.before.command_scope].parameters
           IN  /\ err' = "none"
               /\ Len(pars) = Len(runs)
               /\ \A n \in 1..Len(pars) :
                     /\ pars[n].arg = runs[n]
                     /\ pars[n].label = IF n <= Len(names) THEN names[n]
                                        ELSE "Unknown parameter"
      ]_vars

\* The sum of the character codes of string
RECURSIVE code_sum(_)
code_sum(string) ==
    IF string = <<>> THEN 0 ELSE ord(string[1]) + code_sum(Tail(string))

\* C15: calc_checksum of a string of bytes, the empty one included,
\* returns a value of 0..255 that is the sum of its character codes
\* modulo 256.
C15_ChecksumIsSumMod256 ==
    (call.fn = "calc_checksum" /\ ret # <<>>)
        => /\ ret[1] \in 0..255
           /\ ret[1] = code_sum(call.string) % 256

\* C15 witness: calc_checksum has returned for a string whose codes sum
\* to more than 255
C15_Witness ==
    /\ call.fn = "calc_checksum"
    /\ ret # <<>>
    /\ Len(call.string) > 1
    /\ code_sum(call.string) > 255
    /\ ret[1] = code_sum(call.string) - 256

\* The frame '0' CR <digits of n> ',' <payload of n bytes>, its trailer
\* still to come
bin_frame_body(n) == <<48, CR>> \o decimal(n) \o <<44>> \o payload(n)

\* The step is decode() of the trailer of a binary response frame of n
\* payload bytes
TrailerStep(n) ==
    /\ state = State.BUFFERING_RX
    /\ cmd_xfer_type(command_scope) = "BINARY"
    /\ buffer[RX] = bin_frame_body(n)
    /\ \E b \in 0..255 : DataStep(RX, b)

\* C16: the call that takes the trailer of a binary response frame emits
\* a checksum annotation over the samples of the trailer, checksum-OK when
\* the trailer is the sum of the payload modulo 256 and checksum-Error
\* when it is not.
C16_ChecksumVerdict ==
    [][ \A n \in 0..MaxBinLen :
          TrailerStep(n)
          => /\ err' = "none"
             /\ \E i \in 1..Len(out') :
                   /\ out'[i].ann = IF last'.value = code_sum(payload(n)) % 256
                                     THEN Ann.RX_CS ELSE Ann.RX_CS_ERR
                   /\ out'[i].start = last'.start
                   /\ out'[i].end = last'.end
             /\ \A i \in 1..Len(out') :
                   out'[i].ann \in {Ann.RX_CS, Ann.RX_CS_ERR}
                       => out'[i].start = last'.start
      ]_vars

\* C17: the call that takes a trailer that is not the sum of the payload
\* emits the checksum-Error annotation, takes progress to "TAR" and ends
\* with every field as after __init__, so that the next exchange starts
\* as a first one does.
C17_MismatchDoesNotAbort ==
    [][ \A n \in 0..MaxBinLen :
          ( TrailerStep(n) /\ last'.value # code_sum(payload(n)) % 256 )
          => /\ err' = "none"
             /\ HasAnn(out', Ann.RX_CS_ERR)
             /\ last'.before.progress = "TAR"
             /\ last'.at_end
             /\ program_vars' = fresh_vars
      ]_vars

\* The step is decode() of the terminator of the response to command
\* whose bytes after the ack '0' CR are register
RegisterStep(command, register) ==
    /\ state = State.BUFFERING_RX
    /\ command_scope = command
    /\ progress = "TA"
    /\ buffer[RX] = <<48, CR>> \o register
    /\ DataStep(RX, CR)

\* The call emitted one response detail annotation, over the samples of
\* the bytes between the ack frame and the terminator, with message
DetailIs(anns, message, first, final) ==
    /\ Len(SelectSeq(anns, LAMBDA a : a.ann = Ann.RX_DETAIL)) = 1
    /\ \E i \in 1..Len(anns) :
          /\ anns[i].ann = Ann.RX_DETAIL
          /\ anns[i].arg = message
          /\ anns[i].start = first
          /\ anns[i].end = final

\* C18: for INSTRUMENT STATUS the register bytes 8, 0 (only bit 3 set)
\* yield the message "Acquisition busy", and the bytes 0, 0 yield
\* "Register empty".
C18_RegisterExample ==
    [][ /\ RegisterStep("IS", <<8, 0>>)
           => /\ err' = "none"
              /\ DetailIs(out', <<"Acquisition busy">>,
                          last'.start - 4, last'.start - 1)
        /\ RegisterStep("IS", <<0, 0>>)
           => /\ err' = "none"
              /\ DetailIs(out', <<"Register empty">>,
                          last'.start - 4, last'.start - 1)
      ]_vars

\* C18 witness: the response 8, 0 to INSTRUMENT STATUS has just been
\* decoded
C18_Witness ==
    /\ last.before.command_scope = "IS"
    /\ last.before.buffer[RX] = <<48, CR, 8, 0, CR>>
    /\ last.before.progress = "TAR"
    /\ HasAnn(out, Ann.RX_DETAIL)

\* The descriptions, in table order, of the bits of table set in value
set_bits(table, value) ==
    LET hits == SelectSeq(table, LAMBDA bit : (value \div (2 ^ bit.bit)) % 2 = 1)
    IN  [i \in 1..Len(hits) |-> hits[i].desc]

\* C19: for INSTRUMENT STATUS and STATUS QUERY a register of two bytes,
\* low byte first, yields the descriptions, in table order, of exactly the
\* bits of the command's table that are set among positions 0..15, and
\* "Register empty" when none is.
C19_RegisterAllBits ==
    [][ \A command \in {"IS", "ST"} :
          \A low, high \in resp_bytes :
             RegisterStep(command, <<low, high>>)
             => LET table == IF command = "IS" THEN instrument_status_data
                             ELSE status_query_data
                    message == set_bits(table, low + 256 * high)
                IN  /\ err' = "none"
                    /\ DetailIs(out', IF message = <<>> THEN <<"Register empty">>
                                      ELSE message,
                                last'.start - 4, last'.start - 1)
      ]_vars

\* C20: response_organise names the data tokens of a device response by
\* position: only "Measurement value" is expected when the last byte of
\* the host request before its terminator is 'V' or 'v', the three names
\* type, value, unit when it is not, and every data token past the
\* expected ones is "Unknown response data".
C20_ValuesOnlyFieldCount ==
    (call.fn = "response_organise" /\ ret # <<>>)
        => LET tx == call.self.buffer[TX]
               flag == upper(<<tx[Len(tx) - 1]>>) = <<86>>
               names == IF flag THEN <<"Measurement value">>
                        ELSE <<"Measurement type", "Measurement value",
                               "Unit suffix">>
               data == SelectSeq(ret[1].val, LAMBDA t : t.type = "rx_data")
           IN  /\ ret[1].err = "none"
               /\ \A n \in 1..Len(data) :
                     data[n].name = IF n <= Len(names) THEN names[n]
                                    ELSE "Unknown response data"

\* The call was a reset: it got to the reset_required test with the flag set
WasReset(l) == l.at_end /\ l.before.reset_required

\* An ASCII letter in upper case, every other byte as it is
fold(c) == IF c \in 97..122 THEN c - 32 ELSE c

\* The first two characters (fewer when the frame is shorter) of a host
\* frame, letters in upper case
folded_code(tx) == [i \in 1..Min(2, Len(tx)) |-> fold(tx[i])]

\* C21: the terminator of the first host frame of a cycle sets the command
\* to the table key spelled by the frame's first two characters with
\* letters in upper case, and to UNKNOWN when the table has no such key;
\* once set, the command changes on no byte event of either direction
\* other than a reset.
C21_ClassificationFixed ==
    [][ /\ ( ( /\ state = State.BUFFERING_TX
               /\ command_scope = None
               /\ DataStep(TX, CR) )
             => LET code == folded_code(buffer'[TX])
                    scope == last'.before.command_scope
                IN  /\ scope \in DOMAIN commands
                    /\ IF \E k \in DOMAIN commands : key_chars[k] = code
                       THEN key_chars[scope] = code
                       ELSE scope = "UNKNOWN" )
        /\ ( ( /\ command_scope # None
               /\ \E d \in {RX, TX}, b \in 0..255 : DataStep(d, b)
               /\ ~WasReset(last') )
             => command_scope' = command_scope )
        /\ ( ( command_scope = None /\ command_scope' # None )
             => ( state = State.BUFFERING_TX /\ DataStep(TX, CR) ) )
      ]_vars

\* C21 witness: the host frame 'q' 'p' CR was classified QUERY PRINT and
\* device bytes have been buffered since
C21_Witness ==
    /\ command_scope = "QP"
    /\ SubSeq(buffer[TX], 1, 2) = <<113, 112>>
    /\ Len(buffer[RX]) > 2
    /\ err = "none"

\* The step is decode() of a DATA byte of the device while a BINARY
\* command waits for device bytes
BinaryStep ==
    /\ state = State.BUFFERING_RX
    /\ cmd_xfer_type(command_scope) = "BINARY"
    /\ \E b \in 0..255 : DataStep(RX, b)

\* Number of bytes of rx past the 2-byte ack prefix
past_prefix(rx) == Max(Len(rx) - 2, 0)

\* The frame length len has been parsed and rx holds that many bytes past
\* the prefix
LengthReached(len, rx) == len > 0 /\ past_prefix(rx) >= len

\* C22: for a BINARY command a byte event that leaves fewer than 9 bytes
\* past the 2-byte ack prefix leaves the decoder waiting for device bytes
\* with nothing processed; a parsed frame length is L + d + 1 for the
\* declared length L and its d digits; the frame is handed to the command
\* callback at the first byte event at whose end the length is parsed and
\* the buffer holds at least L + d + 1 bytes past the prefix, and at no
\* event before that.
C22_BinaryFrameCompletion ==
    [][ BinaryStep
        => LET b == last'.before
           IN  /\ past_prefix(b.buffer[RX]) < 9
                  => ( /\ err' = "none"
                       /\ state' = State.BUFFERING_RX
                       /\ last'.called = None
                       /\ b.xfer_length = 0 )
               /\ (err' = "none" /\ b.xfer_length > 0)
                  => \E n \in 0..(MaxBinLen + 1), zeros \in {<<>>, <<48>>} :
                        /\ IsPrefix(<<48, CR>> \o zeros \o decimal(n) \o <<44>>,
                                    b.buffer[RX])
                        /\ b.xfer_length = n + Len(zeros \o decimal(n)) + 1
               /\ ( /\ err' = "none"
                    /\ LengthReached(b.xfer_length, b.buffer[RX])
                    /\ ~LengthReached(xfer_length, buffer[RX]) )
                  => last'.called # None
               /\ last'.called # None
                  => LengthReached(b.xfer_length, b.buffer[RX])
      ]_vars

\* The state in which bytes of direction d are buffered
awaiting(d) == IF d = TX THEN State.BUFFERING_TX ELSE State.BUFFERING_RX

\* The step is decode() of a DATA byte of direction d while a text frame
\* of that direction is being buffered
TextStep(d) ==
    /\ state = awaiting(d)
    /\ (d = RX => cmd_xfer_type(command_scope) = "ASCII")
    /\ \E b \in 0..255 : DataStep(d, b)

\* C23: while a text frame is being buffered, a byte of its direction
\* that is not CR is appended to that direction's buffer and cache and
\* nothing else happens: no annotation, no callback, and state, command,
\* progress, reset flag and frame length stay as they were; the frame is
\* handed to the command callback exactly on a byte that is CR.
C23_IncompleteTextFrame ==
    [][ \A d \in {RX, TX} :
          TextStep(d)
          => IF last'.value # CR
             THEN /\ err' = "none"
                  /\ out' = <<>>
                  /\ last'.called = None
                  /\ buffer' = [buffer EXCEPT ![d] = Append(@, last'.value)]
                  /\ cache' = [cache EXCEPT ![d] =
                                  Append(@, [data |-> pdata_of(last'.value),
                                             start |-> last'.start,
                                             end |-> last'.end])]
                  /\ UNCHANGED <<state, command_scope, progress,
                                 reset_required, xfer_length>>
             ELSE /\ last'.called # None
                  /\ last'.before.buffer[d] = Append(buffer[d], CR)
      ]_vars

\* C23 witness: the first byte of a text response has just been buffered
C23_Witness ==
    /\ state = State.BUFFERING_RX
    /\ command_scope = "CV"
    /\ buffer[RX] = <<48, CR, 65>>
    /\ last.rxtx = RX
    /\ last.value = 65
    /\ out = <<>>

\* C24: a decode call whose packet type is not 'DATA' emits no annotation,
\* raises nothing, calls no callback and leaves every decoder field as it
\* was, whatever the state and the direction.
C24_NonDataIgnored ==
    [][ ( last' # last /\ last'.ptype # "DATA" )
        => ( /\ out' = <<>>
             /\ err' = err
             /\ last'.called = None
             /\ ~last'.at_end
             /\ UNCHANGED program_vars )
      ]_vars

\* C24 witness: a parity error was reported on the host line while device
\* bytes of a response were awaited
C24_Witness ==
    /\ last.ptype = "PARITY ERROR"
    /\ last.rxtx = TX
    /\ state = State.BUFFERING_RX
    /\ progress = "TA"
    /\ Len(buffer[RX]) = 3
    /\ out = <<>>

\* The string buf spells the byte values of the cache c, in order
Spells(buf, c) ==
    /\ Len(buf) = Len(c)
    /\ \A i \in 1..Len(c) : buf[i] = chr(c[i].data[1])

\* t is s, or s with one element appended
GrewByAtMostOne(s, t) ==
    /\ Len(t) \in {Len(s), Len(s) + 1}
    /\ SubSeq(t, 1, Len(s)) = s

\* C25: for each direction the character buffer has the length of the
\* byte cache and its i-th character is the character of the i-th cached
\* byte value, before and after every call; a call that is not a reset
\* leaves each buffer and each cache as it was or with one element
\* appended at the end (the parameter tokenizer and trim_param_start
\* included, which work on a copy).
C25_DirectionBuffer ==
    [][ /\ \A d \in {RX, TX} : Spells(buffer[d], cache[d])
        /\ \A d \in {RX, TX} : Spells(buffer'[d], cache'[d])
        /\ \A d \in {RX, TX} : Spells(last'.before.buffer[d], last'.before.cache[d])
        /\ ~WasReset(last')
           => \A d \in {RX, TX} :
                 /\ GrewByAtMostOne(buffer[d], buffer'[d])
                 /\ GrewByAtMostOne(cache[d], cache'[d])
      ]_vars

\* C25 witness: the host frame 'R' 'S' ' ' CR has been tokenized, its
\* leading blank trimmed, and the ack is being buffered
C25_Witness ==
    /\ command_scope = "RS"
    /\ progress = "T"
    /\ buffer[TX] = <<82, 83, 32, CR>>
    /\ Len(cache[TX]) = 4
    /\ buffer[RX] = <<48>>
    /\ err = "none"

\* The device bytes of a binary response up to its trailer: ack '0' CR,
\* the length field (zeros are its leading zeros), the comma, n payload
\* bytes
bin_frame(zeros, n) == <<48, CR>> \o zeros \o decimal(n) \o <<44>> \o payload(n)

\* C26: for a BINARY command acknowledged with '0' and every declared
\* length L with d length digits, the response annotations are emitted by
\* the call that takes the trailer, the byte that makes the RX count
\* 2 + d + 1 + L + 1, and by no other call: the buffer then holds the
\* frame and nothing after it, the checksum annotation lies on the
\* trailer and the detail annotation spans the L payload bytes.
C26_BinaryFramingExact ==
    [][ BinaryStep
        => /\ \A n \in 0..(MaxBinLen + 1), zeros \in {<<>>, <<48>>} :
                 ( buffer[RX] = bin_frame(zeros, n) )
                 => LET c == last'.before.cache[RX]
                        first == 2 + Len(zeros \o decimal(n)) + 1
                    IN  /\ err' = "none"
                        /\ HasAnn(out', Ann.RESPONSE)
                        /\ \E i \in 1..Len(out') :
                              /\ out'[i].ann \in {Ann.RX_CS, Ann.RX_CS_ERR}
                              /\ out'[i].start = last'.start
                              /\ out'[i].end = last'.end
                        /\ n > 0
                           => \E i \in 1..Len(out') :
                                 /\ out'[i].ann = Ann.RX_DETAIL
                                 /\ out'[i].start = c[first + 1].start
                                 /\ out'[i].end = c[first + n].end
           /\ HasAnn(out', Ann.RESPONSE)
              => \E n \in 0..(MaxBinLen + 1), zeros \in {<<>>, <<48>>} :
                    /\ buffer[RX] = bin_frame(zeros, n)
                    /\ last'.before.buffer[RX] = Append(buffer[RX], last'.value)
      ]_vars

\* The phase symbols of a flow pattern or of a progress string
symbols ==
    ("None" :> <<>>) @@ ("T" :> <<"T">>) @@ ("TA" :> <<"T", "A">>) @@
    ("TAR" :> <<"T", "A", "R">>) @@ ("TATA" :> <<"T", "A", "T", "A">>)

\* The progress p is unset or a non-empty prefix of the flow pattern of
\* the command scope
ProgressOK(p, scope) ==
    /\ p \in DOMAIN symbols
    /\ p # None => ( /\ scope \in DOMAIN commands
                     /\ IsPrefix(symbols[p], symbols[commands[scope].flow]) )

\* The host frame tx is complete
host_frame_done(tx) == Len(tx) > 0 /\ tx[Len(tx)] = CR

\* C27: before and after every call the progress is unset or a non-empty
\* prefix of the flow pattern of the command; where no call has raised it
\* is unset exactly while the host frame of the cycle is not complete; a
\* call leaves it as it was or, when it hands a frame to the command
\* callback, with one phase symbol appended (T for a host frame, A then R
\* for device frames) before any reset; and after an ack '0' the reset
\* flag is raised only with the progress equal to the whole flow pattern.
C27_FlowProgress ==
    [][ LET b == last'.before
        IN  /\ ProgressOK(progress, command_scope)
            /\ ProgressOK(progress', command_scope')
            /\ ProgressOK(b.progress, b.command_scope)
            /\ err' = "none"
               => /\ (progress' = None) <=> ~host_frame_done(buffer'[TX])
                  /\ (b.progress = None) <=> ~host_frame_done(b.buffer[TX])
            /\ \/ b.progress = progress
               \/ /\ last'.called # None
                  /\ \E x \in {"T", "A", "R"} :
                        /\ symbols[b.progress] = Append(symbols[progress], x)
                        /\ (x = "T") <=> (last'.rxtx = TX)
            /\ progress' = IF WasReset(last') THEN None ELSE b.progress
            /\ ( /\ last'.at_end
                 /\ b.reset_required
                 /\ b.buffer[RX] # <<>>
                 /\ b.buffer[RX][1] = 48 )
               => b.progress = commands[b.command_scope].flow
      ]_vars

\* C27 witness: the response to INSTRUMENT STATUS has completed the flow
\* TAR and the decoder is reset
C27_Witness ==
    /\ last.before.command_scope = "IS"
    /\ last.before.progress = "TAR"
    /\ WasReset(last)
    /\ progress = None
    /\ HasAnn(out, Ann.RESPONSE)

\* In BUFFERING_TX nothing of a device frame or of a command is held
HostSideClean(st, rxbuf, rxcache, scope, prog, len, flag) ==
    st = State.BUFFERING_TX
        => ( /\ rxbuf = <<>>
             /\ rxcache = <<>>
             /\ scope = None
             /\ prog = None
             /\ len = 0
             /\ flag = FALSE )

\* In BUFFERING_RX the host frame is complete
DeviceSideFramed(st, txbuf) ==
    st = State.BUFFERING_RX => host_frame_done(txbuf)

\* C28: before and after every call, in BUFFERING_TX the device buffer
\* and cache are empty, command and progress are unset, the frame length
\* is 0 and the reset flag is false; in BUFFERING_RX the host buffer is
\* non-empty and ends with CR, and a call that starts in BUFFERING_RX and
\* is not a reset leaves the host buffer and cache as they were.
C28_NoCrossCycleLeakage ==
    [][ /\ HostSideClean(state, buffer[RX], cache[RX], command_scope, progress,
                         xfer_length, reset_required)
        /\ HostSideClean(state', buffer'[RX], cache'[RX], command_scope',
                         progress', xfer_length', reset_required')
        /\ DeviceSideFramed(state, buffer[TX])
        /\ DeviceSideFramed(state', buffer'[TX])
        /\ ( state = State.BUFFERING_RX /\ ~WasReset(last') )
           => ( buffer'[TX] = buffer[TX] /\ cache'[TX] = cache[TX] )
        /\ ( state = State.BUFFERING_TX /\ state' = State.BUFFERING_TX )
           => UNCHANGED <<buffer[RX], cache[RX]>>
      ]_vars

\* C28 witness: a host byte was rejected while the device bytes of a
\* response were awaited
C28_Witness ==
    /\ state = State.BUFFERING_RX
    /\ progress = "TA"
    /\ last.ptype = "DATA"
    /\ last.rxtx = TX
    /\ HasAnn(out, Ann.TX_ERROR)
    /\ host_frame_done(buffer[TX])
    /\ Len(buffer[RX]) = 3

\* The start (end) sample numbers of the bytes held in the caches of b,
\* together with those of the event itself
byte_starts(b, l) ==
    {b.cache[d][i].start : <<d, i>> \in {<<d, i>> \in {RX, TX} \X (1..(Len(b.cache[RX]) + Len(b.cache[TX]))) :
                                            i <= Len(b.cache[d])}} \cup {l.start}

byte_ends(b, l) ==
    {b.cache[d][i].end : <<d, i>> \in {<<d, i>> \in {RX, TX} \X (1..(Len(b.cache[RX]) + Len(b.cache[TX]))) :
                                          i <= Len(b.cache[d])}} \cup {l.end}

\* C29: every annotation a call emits starts at the start of a byte of
\* the current cycle, ends at the end of one, and does not end before it
\* starts; so for the response ack '0' CR followed at once by CR, and for
\* a host frame with one parameter byte.
C29_AnnotationIntervals ==
    [][ \A i \in 1..Len(out') :
          /\ out'[i].start <= out'[i].end
          /\ out'[i].start \in byte_starts(last'.before, last')
          /\ out'[i].end \in byte_ends(last'.before, last')
      ]_vars

\* C30: a decode call that returns leaves the decoder in BUFFERING_TX or
\* BUFFERING_RX, never in PROCESSING; and a DATA byte is either appended
\* to the buffer of its direction or reported by a direction error
\* annotation over its samples.
C30_ProcessingTransient ==
    [][ /\ err' = "none" => state' \in {State.BUFFERING_TX, State.BUFFERING_RX}
        /\ ( err' = "none" /\ \E d \in {RX, TX}, b \in 0..255 : DataStep(d, b) )
           => \/ last'.before.buffer[last'.rxtx]
                    = Append(buffer[last'.rxtx], chr(last'.value))
              \/ \E i \in 1..Len(out') :
                    /\ out'[i].ann = IF last'.rxtx = RX THEN Ann.RX_ERROR
                                     ELSE Ann.TX_ERROR
                    /\ out'[i].start = last'.start
                    /\ out'[i].end = last'.end
      ]_vars

====
